---- MODULE Spec2Model ----
(***************************************************************************)
(* DataGenerator (src/fetch/data_sequence.py): a keras Sequence that hands *)
(* out batches of normalised (frequency-time, dispersion-time) images and  *)
(* one-hot labels.                                                         *)
(*                                                                         *)
(* Arithmetic.  The per-sample pipeline runs in float32.  The model uses a *)
(* small binary-like format with the same special values and the same      *)
(* rounding behaviour: a finite value is an integer number of quanta       *)
(* (1/Scale of a unit), every operation rounds to the nearest quantum      *)
(* (ties to even), results beyond FltMax overflow to +-Inf, results below  *)
(* half a quantum underflow to 0.  The batch arrays X and Y are float64:   *)
(* they hold every float32 value and leave room for the added noise.       *)
(* Signed zeros are not distinguished (the code never divides by a value   *)
(* that can be -0.0: std is a square root, counts are positive).           *)
(***************************************************************************)
EXTENDS Integers, Sequences, FiniteSets, TLC

\* ------------------------------------------------------------------ bounds
MaxN == 5          \* largest dataset, shuffle off
MaxShuffleN == 3   \* largest dataset, shuffle on
MaxB == 3          \* largest batch_size
MaxExtra == 2      \* positions requested beyond the last valid one
Scale == 2         \* quanta per unit of the float format
FltMax == 1000      \* largest finite float32 value, in quanta
NoiseMax == 1      \* largest magnitude of one noise draw, in quanta
MaxNoiseN == 1     \* largest dataset, noise on

\* --------------------------------------------------- configuration defaults
n_channels == 1
n_classes == 2

\* ------------------------------------------------------------ float values
F64Max == FltMax + NoiseMax
PInf == F64Max + 1
NInf == 0 - PInf
NaN == PInf + 1

IsSpecial(a) == a = NaN \/ a = PInf \/ a = NInf
IsFinite(a) == ~IsSpecial(a)

\* p/q rounded to the nearest integer, ties to even (q > 0)
RoundDiv(p, q) ==
  LET fl == p \div q
      r == p % q
  IN  IF 2 * r < q THEN fl
      ELSE IF 2 * r > q THEN fl + 1
      ELSE IF fl % 2 = 0 THEN fl ELSE fl + 1

\* float32 overflow
Overflow(v) == IF v > FltMax THEN PInf ELSE IF v < 0 - FltMax THEN NInf ELSE v

Sign(a) == IF a > 0 THEN 1 ELSE IF a < 0 THEN 0 - 1 ELSE 0

FNeg(a) == IF a = NaN THEN NaN ELSE 0 - a

FAdd(a, b) ==
  IF a = NaN \/ b = NaN THEN NaN
  ELSE IF (a = PInf /\ b = NInf) \/ (a = NInf /\ b = PInf) THEN NaN
  ELSE IF IsSpecial(a) THEN a
  ELSE IF IsSpecial(b) THEN b
  ELSE Overflow(a + b)

FSub(a, b) == FAdd(a, FNeg(b))

FMul(a, b) ==
  IF a = NaN \/ b = NaN THEN NaN
  ELSE IF IsSpecial(a) \/ IsSpecial(b)
       THEN IF a = 0 \/ b = 0 THEN NaN
            ELSE IF Sign(a) * Sign(b) > 0 THEN PInf ELSE NInf
  ELSE Overflow(RoundDiv(a * b, Scale))

FDiv(a, b) ==
  IF a = NaN \/ b = NaN THEN NaN
  ELSE IF IsSpecial(a) /\ IsSpecial(b) THEN NaN
  ELSE IF IsSpecial(b) THEN 0
  ELSE IF IsSpecial(a) THEN (IF b < 0 THEN FNeg(a) ELSE a)
  ELSE IF b = 0 THEN (IF a = 0 THEN NaN ELSE IF a > 0 THEN PInf ELSE NInf)
  ELSE IF b > 0 THEN Overflow(RoundDiv(a * Scale, b))
  ELSE Overflow(RoundDiv((0 - a) * Scale, 0 - b))

\* the integer nearest to the square root of m: the least r with
\* m < (r + 1/2)^2
RECURSIVE SqrtUp(_, _)
SqrtUp(m, r) ==
  IF 4 * m < (2 * r + 1) * (2 * r + 1) THEN r ELSE SqrtUp(m, r + 1)

FSqrt(a) ==
  IF a = NaN \/ a < 0 THEN NaN
  ELSE IF a = PInf THEN PInf
  ELSE SqrtUp(a * Scale, 0)

\* the float value of the integer n
FromInt(n) == n * Scale

\* ----------------------------------------------------------------- arrays
\* the sequence f with every element computed (once)
Tup(f) == f \o << >>

\* a 2-D array is a sequence of rows; Flatten is numpy's C (row-major) order
Rows(m) == Len(m)
Cols(m) == IF Len(m) = 0 THEN 0 ELSE Len(m[1])

Flatten(m) ==
  Tup([i \in 1..(Rows(m) * Cols(m)) |->
         m[((i - 1) \div Cols(m)) + 1][((i - 1) % Cols(m)) + 1]])

Transpose(m) == Tup([c \in 1..Cols(m) |-> Tup([r \in 1..Rows(m) |-> m[r][c]])])

\* np.nan_to_num on float32: NaN -> 0, +Inf -> largest finite, -Inf -> smallest
nan_to_num(a) ==
  IF a = NaN THEN 0
  ELSE IF a = PInf THEN FltMax
  ELSE IF a = NInf THEN 0 - FltMax
  ELSE a

\* np.nan_to_num on an array
NanToNumM(m) ==
  Tup([r \in 1..Rows(m) |-> Tup([c \in 1..Cols(m) |-> nan_to_num(m[r][c])])])

RECURSIVE SumInt(_, _)
SumInt(f, n) == IF n = 0 THEN 0 ELSE SumInt(f, n - 1) + f[n]

\* scipy.signal.detrend(type='linear') on one row: the residual of the
\* least-squares line through (j, y[j]), each residual correctly rounded.
\* With abscissae j = 0..n-1 (the residual does not depend on the scaling
\* of the abscissa) the residual of point j is
\*   (n*D*y[j] - D*Sy + Bn*Sj - n*Bn*j) / (n*D)
\* where D = n*Sjj - Sj^2 and Bn = n*Sjy - Sj*Sy.
DetrendRow(y) ==
  LET n == Len(y)
      Sj == SumInt([j \in 1..n |-> j - 1], n)
      Sjj == SumInt([j \in 1..n |-> (j - 1) * (j - 1)], n)
      Sy == SumInt(y, n)
      Sjy == SumInt([j \in 1..n |-> (j - 1) * y[j]], n)
      D == n * Sjj - Sj * Sj
      Bn == n * Sjy - Sj * Sy
  IN  IF n <= 1 THEN [j \in 1..n |-> 0]
      ELSE Tup([j \in 1..n |->
                  Overflow(RoundDiv(n * D * y[j] - D * Sy + Bn * Sj
                                      - n * Bn * (j - 1), n * D))])

detrend(m) == Tup([r \in 1..Rows(m) |-> DetrendRow(m[r])])

\* a float32 reduction: res = 0; res += a[i]
RECURSIVE SumF(_, _)
SumF(f, n) == IF n = 0 THEN 0 ELSE FAdd(SumF(f, n - 1), f[n])

\* np.std of a float32 array (numpy _var/_std): mean, squared deviations,
\* their mean, square root, every step in float32
std(f) ==
  LET n == Len(f)
      arrmean == FDiv(SumF(f, n), FromInt(n))
      x == Tup([i \in 1..n |-> FSub(f[i], arrmean)])
      xx == Tup([i \in 1..n |-> FMul(x[i], x[i])])
      ret == FDiv(SumF(xx, n), FromInt(n))
  IN  FSqrt(ret)

\* np.median: NaN if any element is NaN, else the middle element of the
\* sorted data or the mean of the two middle ones
median(f) ==
  LET n == Len(f)
      srt == SortSeq(f, LAMBDA a, b : a < b)
  IN  IF \E i \in 1..n : f[i] = NaN THEN NaN
      ELSE IF n % 2 = 1 THEN srt[(n + 1) \div 2]
      ELSE FDiv(FAdd(srt[n \div 2], srt[(n \div 2) + 1]), FromInt(2))

\* data /= v
DivM(m, v) ==
  Tup([r \in 1..Rows(m) |-> Tup([c \in 1..Cols(m) |-> FDiv(m[r][c], v)])])

\* data -= v
SubM(m, v) ==
  Tup([r \in 1..Rows(m) |-> Tup([c \in 1..Cols(m) |-> FSub(m[r][c], v)])])

\* data /= np.std(data); data -= np.median(data)
Normalise(m) ==
  LET d == DivM(m, std(Flatten(m)))
  IN  SubM(d, median(Flatten(d)))

\* np.reshape(data, (h, w, c)): C order is kept
Reshape(m, dim, ch) ==
  LET f == Flatten(m)
  IN  Tup([r \in 1..dim[1] |-> Tup([c \in 1..dim[2] |-> Tup([k \in 1..ch |->
         f[((r - 1) * dim[2] + (c - 1)) * ch + k]])])])

\* a batch-level sweep that replaces nothing
SweepNone(a) == a

\* X[X != X] = 0.0 on one element: only NaN differs from itself
SweepNaN(a) == IF a = NaN THEN 0 ELSE a

\* X += noise on one element, in float64
AddNoise(a, z) == IF IsSpecial(a) THEN a ELSE a + z

\* X[X != X] = 0.0 on a batch array (sample, row, column, channel)
SweepB(A) ==
  Tup([i \in 1..Len(A) |-> Tup([r \in 1..Len(A[i]) |->
    Tup([c \in 1..Len(A[i][r]) |->
      Tup([k \in 1..Len(A[i][r][c]) |-> SweepNaN(A[i][r][c][k])])])])])

\* keras.utils.to_categorical(y, num_classes)
to_categorical(yy, num_classes) ==
  [i \in 1..Len(yy) |-> [c \in 1..num_classes |-> IF c - 1 = yy[i] THEN 1 ELSE 0]]

\* ------------------------------------------------------------------ state
VARIABLES
  result_list,   \* self.result_list: sequence of [ft, dt] samples
  labels,        \* self.labels
  batch_size,    \* self.batch_size
  ft_dim,        \* self.ft_dim
  dt_dim,        \* self.dt_dim
  shuffle,       \* self.shuffle
  noise,         \* self.noise
  indexes,       \* self.indexes, the permutation (0-based sample indices)
  pc,            \* "new" before __init__ has run, "ready" after
  pos,           \* the argument of the last __getitem__ call, -1 if none
  idx,           \* the indexes resolved by the last __getitem__ call
  X,             \* "data_freq_time" of the last returned batch
  Y,             \* "data_dm_time" of the last returned batch
  y,             \* the one-hot labels of the last returned batch
  served         \* history: valid position -> indexes resolved for it
                 \* since the last on_epoch_end

vars == <<result_list, labels, batch_size, ft_dim, dt_dim, shuffle, noise,
          indexes, pc, pos, idx, X, Y, y, served>>

config == <<result_list, labels, batch_size, ft_dim, dt_dim, shuffle, noise>>

\* ---------------------------------------------------------------- helpers
Min(a, b) == IF a < b THEN a ELSE b

\* Python s[lo:hi] for 0 <= lo, 0 <= hi (out-of-range bounds are clamped)
Slice(s, lo, hi) ==
  LET l == Min(lo, Len(s))
      h == Min(hi, Len(s))
  IN  Tup([i \in 1..(h - l) |-> s[l + i]])

\* np.arange(n)
arange(n) == [i \in 1..n |-> i - 1]

\* x[i] = x[j] without the assignment back to x[j]
SwapCopy(s, i, j) ==
  [s EXCEPT ![i + 1] = s[j + 1]]

\* x[i], x[j] = x[j], x[i] (0-based positions)
Swap(s, i, j) ==
  [s EXCEPT ![i + 1] = s[j + 1], ![j + 1] = s[i + 1]]

\* np.random.shuffle(x): for i = n-1 down to 1, draw j in 0..i and swap
\* x[i] with x[j]; the set of arrays the loop can leave, from step i on
RECURSIVE FisherYates(_, _)
FisherYates(s, i) ==
  IF i < 1 THEN {s}
  ELSE UNION {FisherYates(Swap(s, i, j), i - 1) : j \in 0..i}

Shuffles(n) == FisherYates(arange(n), n - 1)

\* floor instead of ceil
CeilFloor(a, b) == a \div b

\* int(np.ceil(a / b))
Ceil(a, b) == IF a % b = 0 THEN a \div b ELSE (a \div b) + 1

__len__ == Ceil(Len(result_list), batch_size)

\* lines 109-111 and 113-115: the per-sample pipelines
ProcessFT(data_ft) == Normalise(detrend(NanToNumM(Transpose(data_ft))))
ProcessDT(data_dt) == Normalise(NanToNumM(data_dt))

Elems(m) == Rows(m) * Cols(m)

\* np.reshape raises ValueError unless the element counts agree
ShapeOK(smp) ==
  /\ Elems(smp.ft) = ft_dim[1] * ft_dim[2] * n_channels
  /\ Elems(smp.dt) = dt_dim[1] * dt_dim[2] * n_channels

\* the values np.random.normal can return for an array shaped like X
\* (per element: the extreme draws and none)
NoiseDraws(len) ==
  [1..len -> [1..ft_dim[1] -> [1..ft_dim[2] -> [1..n_channels ->
     {0 - NoiseMax, 0, NoiseMax}]]]]

\* labels looked up by the slot in the batch instead of the original index
AssembleSlotLabels(list_IDs_temp, indexes_) ==
  LET n == Len(list_IDs_temp)
      X0 == Tup([i \in 1..n |->
                   Reshape(ProcessFT(list_IDs_temp[i].ft), ft_dim, n_channels)])
      Y0 == Tup([i \in 1..n |->
                   Reshape(ProcessDT(list_IDs_temp[i].dt), dt_dim, n_channels)])
      y0 == Tup([i \in 1..n |-> labels[i]])
  IN  [X |-> SweepB(X0), Y |-> SweepB(Y0), y |-> y0]

\* __data_generation, lines 102-122: the batch before noise is added
Assemble(list_IDs_temp, indexes_) ==
  LET n == Len(list_IDs_temp)
      X0 == Tup([i \in 1..n |->
                   Reshape(ProcessFT(list_IDs_temp[i].ft), ft_dim, n_channels)])
      Y0 == Tup([i \in 1..n |->
                   Reshape(ProcessDT(list_IDs_temp[i].dt), dt_dim, n_channels)])
      y0 == Tup([i \in 1..n |-> labels[indexes_[i] + 1]])
  IN  [X |-> SweepB(X0), Y |-> SweepB(Y0), y |-> y0]

\* X += np.random.normal(...), lines 124-127; nz is the array drawn
AddNoiseB(A, nz) ==
  Tup([i \in 1..Len(A) |-> Tup([r \in 1..Len(A[i]) |->
    Tup([c \in 1..Len(A[i][r]) |->
      Tup([k \in 1..Len(A[i][r][c]) |->
             AddNoise(A[i][r][c][k], nz[i][r][c][k])])])])])

\* noise added to the dispersion-time array as well
data_generation_NoisyDT(asm, nz) ==
  [X |-> IF noise THEN AddNoiseB(asm.X, nz) ELSE asm.X,
   Y |-> IF noise
         THEN Tup([i \in 1..Len(asm.Y) |-> Tup([r \in 1..Len(asm.Y[i]) |->
                Tup([c \in 1..Len(asm.Y[i][r]) |->
                  Tup([k \in 1..Len(asm.Y[i][r][c]) |->
                         AddNoise(asm.Y[i][r][c][k], nz[i][1][1][1])])])])])
         ELSE asm.Y,
   y |-> to_categorical(asm.y, n_classes)]

\* __data_generation from the assembled batch on, lines 124-130
__data_generation(asm, nz) ==
  [X |-> IF noise THEN AddNoiseB(asm.X, nz) ELSE asm.X,
   Y |-> asm.Y,
   y |-> to_categorical(asm.y, n_classes)]

\* a batch one index short
ResolveShort(index) ==
  IF index < __len__
  THEN Slice(indexes, index * batch_size, (index + 1) * batch_size - 1)
  ELSE Slice(indexes, index * batch_size, Len(indexes))

\* a batch running one index into the next
ResolveOverlap(index) ==
  IF index < __len__
  THEN Slice(indexes, index * batch_size, (index + 1) * batch_size + 1)
  ELSE Slice(indexes, index * batch_size, Len(indexes))

\* the tail taken from the position instead of position * batch_size
ResolveFromIndex(index) ==
  IF index < __len__
  THEN Slice(indexes, index * batch_size, (index + 1) * batch_size)
  ELSE Slice(indexes, index, Len(indexes))

\* the index resolution of __getitem__, lines 74-79
Resolve(index) ==
  IF index < __len__
  THEN Slice(indexes, index * batch_size, (index + 1) * batch_size)
  ELSE Slice(indexes, index * batch_size, Len(indexes))

\* ----------------------------------------------------------- initial states
\* The datasets of Spec: sample i of the catalogue is different for every i
\* (so is its transform), every third one holds a NaN, every fourth an Inf.
Catalogue(i) ==
  [ft |-> << <<0>>, <<IF i % 3 = 0 THEN NaN ELSE 6 * (2 * (i % 2) - 1)>>, <<i>> >>,
   dt |-> << <<0, i>>, <<4 * (i % 3), IF i % 4 = 0 THEN PInf ELSE 8>> >>]

NoReturn ==
  /\ indexes = << >>
  /\ pc = "new"
  /\ pos = 0 - 1
  /\ idx = << >>
  /\ X = << >>
  /\ Y = << >>
  /\ y = << >>
  /\ served = << >>

\* constructor arguments for the batching claims
Init ==
  /\ \E n \in 0..MaxN : result_list = [i \in 1..n |-> Catalogue(i)]
  /\ labels = [i \in 1..Len(result_list) |-> i % n_classes]
  /\ batch_size \in 1..MaxB
  /\ ft_dim = <<1, 3>>
  /\ dt_dim = <<2, 2>>
  /\ shuffle \in BOOLEAN
  /\ shuffle => Len(result_list) <= MaxShuffleN
  /\ noise \in BOOLEAN
  /\ noise => (batch_size = 1 /\ Len(result_list) <= MaxNoiseN)
  /\ NoReturn

\* the element values of the transform claims: the specials, values one
\* quantum apart, and an ordinary value
Vals == {NaN, PInf, 0 - 1, 0, 1, 4}

Const22(c) == << <<c, c>>, <<c, c>> >>

\* 5.0
Five == FromInt(5)

FtWide ==
  {<< <<a>>, <<b>>, <<c>> >> : a \in Vals, b \in Vals, c \in Vals}
    \cup {Const22(c) : c \in Vals \cup {Five}}

DtWide ==
  {<< <<a, b>>, <<c, d>> >> : a \in Vals, b \in Vals, c \in Vals, d \in Vals}
    \cup {Const22(Five)}

FtPool == {<< <<NaN>>, <<6>>, <<1>> >>}

DtPool == {<< <<0, 1>>, <<4, 8>> >>, << <<0, NaN>>, <<4, 8>> >>}

WideSamples ==
  {[ft |-> f, dt |-> d] : f \in FtWide, d \in DtPool}
    \cup {[ft |-> f, dt |-> d] : f \in FtPool, d \in DtWide}

\* constructor arguments for the transform claims: one sample, noise off
InitT ==
  /\ \E smp \in WideSamples : result_list = <<smp>>
  /\ labels = <<1>>
  /\ batch_size = 1
  /\ ft_dim = (IF Rows(result_list[1].ft) = 2 THEN <<2, 2>> ELSE <<1, 3>>)
  /\ dt_dim = <<2, 2>>
  /\ shuffle = FALSE
  /\ noise = FALSE
  /\ NoReturn

\* ---------------------------------------------------------------- actions
\* the permutation shuffled whatever the flag says
on_epoch_end_Shuffled ==
  /\ \E p \in Shuffles(Len(result_list)) : indexes' = p
  /\ served' = << >>

\* on_epoch_end: self.indexes = arange(len(result_list)), shuffled in place
\* when self.shuffle is set.  A new epoch starts: the history is cleared.
on_epoch_end ==
  /\ \E p \in (IF shuffle THEN Shuffles(Len(result_list))
                          ELSE {arange(Len(result_list))}) : indexes' = p
  /\ served' = << >>

\* __init__: the fields are the constructor's arguments; on_epoch_end runs
\* inside the constructor (line 57)
__init__ ==
  /\ pc = "new"
  /\ on_epoch_end
  /\ pc' = "ready"
  /\ UNCHANGED <<config, pos, idx, X, Y, y>>

\* a call of on_epoch_end on the constructed object
EpochEnd ==
  /\ pc = "ready"
  /\ on_epoch_end
  /\ UNCHANGED <<config, pc, pos, idx, X, Y, y>>

\* __getitem__(index).  A reshape that raises leaves the object as it was,
\* so the call is enabled only when every resolved sample fits the shapes.
__getitem__(index) ==
  /\ pc = "ready"
  /\ LET indexes_ == Resolve(index)
         list_IDs_temp == Tup([i \in 1..Len(indexes_) |->
                                 result_list[indexes_[i] + 1]])
         asm == Assemble(list_IDs_temp, indexes_)
     IN  /\ \A i \in 1..Len(list_IDs_temp) : ShapeOK(list_IDs_temp[i])
         /\ \E nz \in (IF noise THEN NoiseDraws(Len(indexes_)) ELSE {<< >>}) :
              LET out == __data_generation(asm, nz)
              IN  /\ X' = out.X
                  /\ Y' = out.Y
                  /\ y' = out.y
         /\ pos' = index
         /\ idx' = indexes_
         /\ served' = IF index < __len__
                      THEN [q \in (DOMAIN served) \cup {index} |->
                              IF q = index THEN indexes_ ELSE served[q]]
                      ELSE served
  /\ UNCHANGED <<config, indexes, pc>>

\* the positions requested: the valid ones and MaxExtra beyond them
Positions == 0..(__len__ + MaxExtra - 1)

Next ==
  \/ __init__
  \/ EpochEnd
  \/ \E index \in Positions : __getitem__(index)

Spec == Init /\ [][Next]_vars

SpecT == InitT /\ [][Next]_vars

\* ------------------------------------------------------------- properties
N == Len(result_list)

InRange(p) == p >= 0 /\ p < __len__

\* the positions requested in this epoch
ServedInRange == DOMAIN served

AllServed == \A p \in 0..(__len__ - 1) : p \in DOMAIN served

RECURSIVE SumSizes(_)
SumSizes(p) == IF p < 0 THEN 0 ELSE SumSizes(p - 1) + Len(served[p])

\* C1: batch_count is ceil(N/B) (the least c with c*B >= N), and once every
\* position 0..batch_count-1 has been requested in an epoch, the sizes of
\* the resolved batches add up to N.
C1_CountAndSizes ==
  /\ __len__ * batch_size >= N
  /\ (__len__ - 1) * batch_size < N
  /\ (pc = "ready" /\ AllServed) => SumSizes(__len__ - 1) = N

C1_Witness ==
  /\ pc = "ready"
  /\ N = 5 /\ batch_size = 2
  /\ __len__ = 3
  /\ AllServed
  /\ SumSizes(__len__ - 1) = 5

\* C2: for N >= 1 every position before the last resolves exactly B
\* indices and the last one resolves N - B*(batch_count-1), between 1 and B.
C2_BatchSizes ==
  (pc = "ready" /\ N >= 1) =>
    \A q \in ServedInRange :
      IF q < __len__ - 1
      THEN Len(served[q]) = batch_size
      ELSE /\ Len(served[q]) = N - batch_size * (__len__ - 1)
           /\ Len(served[q]) >= 1
           /\ Len(served[q]) <= batch_size

C2_Witness ==
  /\ pc = "ready"
  /\ pos = __len__ - 1
  /\ 0 \in DOMAIN served
  /\ pos > 0
  /\ Len(served[0]) = batch_size
  /\ Len(idx) >= 1
  /\ Len(idx) < batch_size

\* the identity ordering sliced at position p: p*B .. min((p+1)*B, N) - 1
IdentitySlice(p) ==
  [i \in 1..(Min((p + 1) * batch_size, N) - p * batch_size) |->
     p * batch_size + i - 1]

\* C3: with shuffle off, every batch resolved for a valid position, the
\* last one and every earlier one of the epoch, whatever calls came before,
\* is the identity ordering sliced by position, so a repeated request gets
\* the same indices; with N=5, B=2 there are 3 batches and position 2
\* resolves exactly index 4.
C3_IdentityOrder ==
  (pc = "ready" /\ ~shuffle) =>
    /\ indexes = arange(N)
    /\ InRange(pos) => idx = IdentitySlice(pos)
    /\ \A q \in DOMAIN served : served[q] = IdentitySlice(q)
    /\ (N = 5 /\ batch_size = 2) =>
         /\ __len__ = 3
         /\ \A q \in ServedInRange : Len(served[q]) = (IF q = 2 THEN 1 ELSE 2)
         /\ 2 \in DOMAIN served => served[2] = <<4>>

C3_Witness ==
  /\ pc = "ready" /\ ~shuffle
  /\ N = 5 /\ batch_size = 2
  /\ pos = 2 /\ idx = <<4>>
  /\ DOMAIN served = {0, 1, 2}

\* C4: no batch has been requested before the constructor has run
\* on_epoch_end, and with shuffle on the permutation of a constructed
\* object has length N and holds every index 0..N-1 exactly once.
C4_Bijection ==
  /\ pc = "new" => (pos = 0 - 1 /\ served = << >>)
  /\ (pc = "ready" /\ shuffle) =>
       /\ Len(indexes) = N
       /\ \A k \in 0..(N - 1) :
            Cardinality({i \in 1..Len(indexes) : indexes[i] = k}) = 1

C4_Witness ==
  /\ pc = "ready" /\ shuffle
  /\ N = MaxShuffleN
  /\ indexes # arange(N)
  /\ pos >= 0

\* C5: a request for a position p >= batch_count resolves the empty tail
\* slice, returns a batch with zero samples, and leaves the permutation as
\* it was.  (A step that changes the last requested position is a
\* __getitem__ call.)
C5_OutOfRange ==
  [][/\ pos' >= __len__ =>
          /\ idx' = << >>
          /\ X' = << >> /\ Y' = << >> /\ y' = << >>
     /\ (pos' >= __len__ /\ pos' # pos) =>
          /\ idx' = Slice(indexes, pos' * batch_size, Len(indexes))
          /\ indexes' = indexes]_vars

C5_Witness ==
  /\ pc = "ready"
  /\ N >= 1
  /\ pos > __len__
  /\ idx = << >>
  /\ X = << >>

\* the image a sample is expected to give: the pipeline, reshaped, NaN swept
SweepImage(img) ==
  [r \in 1..Len(img) |-> [c \in 1..Len(img[r]) |->
     [k \in 1..Len(img[r][c]) |-> SweepNaN(img[r][c][k])]]]

ExpectedFT(k) ==
  SweepImage(Reshape(ProcessFT(result_list[k + 1].ft), ft_dim, n_channels))

ExpectedDT(k) ==
  SweepImage(Reshape(ProcessDT(result_list[k + 1].dt), dt_dim, n_channels))

OneHot(l) == [c \in 1..n_classes |-> IF c = l + 1 THEN 1 ELSE 0]

\* a is b plus one noise draw
NoisyOf(a, b) ==
  IF IsSpecial(b) THEN a = b
  ELSE a - b >= 0 - NoiseMax /\ a - b <= NoiseMax

ImageNoisyOf(A, B) ==
  /\ Len(A) = Len(B)
  /\ \A r \in 1..Len(B) :
       /\ Len(A[r]) = Len(B[r])
       /\ \A c \in 1..Len(B[r]) :
            /\ Len(A[r][c]) = Len(B[r][c])
            /\ \A k \in 1..Len(B[r][c]) : NoisyOf(A[r][c][k], B[r][c][k])

\* C6: the noise flag touches the frequency-time array only: whatever the
\* flag, the dispersion-time array and the labels of a returned batch are
\* the noise-free ones; the frequency-time array is the noise-free one when
\* the flag is off and the noise-free one plus one draw per element when on.
C6_NoiseOnlyFT ==
  (pc = "ready" /\ pos >= 0) =>
    /\ Len(X) = Len(idx) /\ Len(Y) = Len(idx) /\ Len(y) = Len(idx)
    /\ \A i \in 1..Len(idx) :
         /\ Y[i] = ExpectedDT(idx[i])
         /\ y[i] = OneHot(labels[idx[i] + 1])
         /\ ~noise => X[i] = ExpectedFT(idx[i])
         /\ noise => ImageNoisyOf(X[i], ExpectedFT(idx[i]))

C6_Witness ==
  /\ pc = "ready" /\ noise
  /\ pos = 0
  /\ Len(idx) = 1
  /\ X[1] # ExpectedFT(idx[1])
  /\ Y[1] = ExpectedDT(idx[1])

HasNonFinite(m) ==
  \E r \in 1..Rows(m) : \E c \in 1..Cols(m) : IsSpecial(m[r][c])

ImageFinite(img) ==
  \A r \in 1..Len(img) : \A c \in 1..Len(img[r]) :
    \A k \in 1..Len(img[r][c]) : IsFinite(img[r][c][k])

\* C7: a sample with a NaN or an Inf anywhere in its frequency-time or
\* dispersion-time input gives no NaN and no Inf anywhere in its two output
\* images.
C7_NoNonFinite ==
  (pc = "ready" /\ pos >= 0) =>
    \A i \in 1..Len(idx) :
      (HasNonFinite(result_list[idx[i] + 1].ft)
         \/ HasNonFinite(result_list[idx[i] + 1].dt))
      => (ImageFinite(X[i]) /\ ImageFinite(Y[i]))

IsConstant(m) ==
  \A r \in 1..Rows(m) : \A c \in 1..Cols(m) :
    IsFinite(m[r][c]) /\ m[r][c] = m[1][1]

ImageZero(img) ==
  \A r \in 1..Len(img) : \A c \in 1..Len(img[r]) :
    \A k \in 1..Len(img[r][c]) : img[r][c][k] = 0

C9_Pairing ==
  (pc = "ready" /\ pos >= 0) =>
    /\ \A i \in 1..Len(idx) :
         LET k == idx[i]
         IN  /\ k \in 0..(N - 1)
             /\ Y[i] = ExpectedDT(k)
             /\ ImageNoisyOf(X[i], ExpectedFT(k))
             /\ \A c \in 1..n_classes : y[i][c] = (IF c - 1 = labels[k + 1] THEN 1 ELSE 0)
             /\ served # << >> => k = indexes[pos * batch_size + i]

\* a shuffled epoch in which a slot's label is not the label at the slot's
\* place in storage order
C9_Witness ==
  /\ pc = "ready" /\ shuffle
  /\ served # << >>
  /\ InRange(pos)
  /\ \E i \in 1..Len(idx) :
       /\ idx[i] # pos * batch_size + i - 1
       /\ labels[idx[i] + 1] # labels[pos * batch_size + i]
       /\ Y[i] # ExpectedDT(pos * batch_size + i - 1)

Range(sq) == {sq[i] : i \in 1..Len(sq)}

\* C10: within one epoch the batches resolved for valid positions are
\* duplicate-free and pairwise disjoint, and once all positions have been
\* requested they cover 0..N-1; a __getitem__ call leaves the permutation
\* unchanged.
C10_Partition ==
  pc = "ready" =>
    /\ \A q \in ServedInRange :
         Cardinality(Range(served[q])) = Len(served[q])
    /\ \A q1, q2 \in ServedInRange :
         q1 # q2 => Range(served[q1]) \cap Range(served[q2]) = {}
    /\ AllServed =>
         UNION {Range(served[q]) : q \in ServedInRange} = 0..(N - 1)
    /\ \A q \in ServedInRange :
         served[q] = Slice(indexes, q * batch_size, (q + 1) * batch_size)

C10_Witness ==
  /\ pc = "ready" /\ shuffle
  /\ N = MaxShuffleN /\ batch_size = 2
  /\ indexes # arange(N)
  /\ AllServed
  /\ __len__ >= 2

====
